---- MODULE Spec2Model ----
(***************************************************************************)
(* Photo-Search (src/app.py): embedding acquisition with a live provider   *)
(* and a deterministic fallback, cosine scoring, and the ranked scan of    *)
(* the photo collection done by the text and image search handlers and    *)
(* fed by the upload handler.                                              *)
(*                                                                         *)
(* Numbers.  An embedding is a sequence of integers.  The fallback gives   *)
(* byte/255 - 0.5 = (2*byte - 255)/510, kept here as the integer           *)
(* 2*byte - 255; cosine similarity does not depend on that common unit.   *)
(* A similarity is kept exactly, as the pair (dot, densq) standing for     *)
(* dot/sqrt(densq); comparisons with 0.1 and the rounding to 3 decimals    *)
(* are computed on that exact value in integer arithmetic.                 *)
(***************************************************************************)
EXTENDS Integers, Sequences, FiniteSets, TLC

\* ------------------------------------------------------------------ bounds
\* Embedding dimension of the model (the source uses 1024).
Dim == 4
\* Largest photo collection present before the first request.
MaxInitCorpus == 2
\* Largest photo collection the upload handler may grow the store to.
MaxPhotos == 2
\* Largest number of files in one upload.
MaxFiles == 2

\* --------------------------------------------------------- program constants
\* results with similarity > 0.1 are kept: the threshold, in thousandths.
ThresholdMilli == 100
\* round(similarity, 3): the number of thousandths in 1.0.
RoundScale == 1000
\* limit = int(data.get('limit', 20))
DefaultLimit == 20

ALLOWED_EXTENSIONS == {"png", "jpg", "jpeg", "webp"}

\* ------------------------------------------------------------ small helpers
Max2(a, b) == IF a >= b THEN a ELSE b
Min2(a, b) == IF a <= b THEN a ELSE b
Last(s) == s[Len(s)]

\* s[:n] of Python for a list s and any integer n (negative n counts from
\* the end).
Slice(s, n) ==
  IF n >= 0 THEN SubSeq(s, 1, Min2(n, Len(s)))
  ELSE SubSeq(s, 1, Max2(Len(s) + n, 0))

\* a/b compared with c/d for a, c >= 0 and b, d > 0, by their continued
\* fractions: -1, 0 or 1.  No product is formed, so nothing overflows.
RECURSIVE CmpFrac(_, _, _, _)
CmpFrac(a, b, c, d) ==
  LET qa == a \div b
      qc == c \div d
      ra == a % b
      rc == c % d
  IN  IF qa # qc THEN (IF qa < qc THEN -1 ELSE 1)
      ELSE IF ra = 0 /\ rc = 0 THEN 0
      ELSE IF ra = 0 THEN -1
      ELSE IF rc = 0 THEN 1
      ELSE -CmpFrac(b, ra, d, rc)

\* ------------------------------------------------------------------ vectors
RECURSIVE SumTo(_, _)
SumTo(f, n) == IF n = 0 THEN 0 ELSE f[n] + SumTo(f, n - 1)

\* np.dot(vec1, vec2) for two vectors of the same length
Dot(a, b) == SumTo([i \in 1..Len(a) |-> a[i] * b[i]], Len(a))
\* np.linalg.norm(vec) squared
NormSq(a) == Dot(a, a)

\* prefix, filled with zeros up to the model's dimension
Pad(prefix) == [i \in 1..Dim |-> IF i <= Len(prefix) THEN prefix[i] ELSE 0]

\* ------------------------------------------------------- calculate_similarity
\* The float 0.0.
ZeroSim == [raised |-> FALSE, dot |-> 0, densq |-> 1]
\* np.dot raising ValueError: the two shapes are not aligned.
ValueError == [raised |-> TRUE, dot |-> 0, densq |-> 1]

\* calculate_similarity(embedding1, embedding2): dot/(norm1*norm2), kept as
\* the exact pair (dot, (norm1*norm2)^2).  `not embedding` is true of None
\* and of the empty list, both modelled by the empty sequence.
calculate_similarity(embedding1, embedding2) ==
  IF Len(embedding1) = 0 \/ Len(embedding2) = 0 THEN ZeroSim
  ELSE IF Len(embedding1) # Len(embedding2) THEN ValueError
  ELSE IF NormSq(embedding1) = 0 \/ NormSq(embedding2) = 0 THEN ZeroSim
  ELSE [raised |-> FALSE, dot |-> Dot(embedding1, embedding2),
        densq |-> NormSq(embedding1) * NormSq(embedding2)]

\* similarity compared with milli/1000, for milli > 0: -1, 0 or 1
SimCmpMilli(sim, milli) ==
  IF sim.dot <= 0 THEN -1
  ELSE CmpFrac(sim.dot * sim.dot, sim.densq, milli * milli, RoundScale * RoundScale)

\* similarity > 0.1
AboveThreshold(sim) == SimCmpMilli(sim, ThresholdMilli) = 1
\* similarity >= 0.1
AtLeastThreshold(sim) == SimCmpMilli(sim, ThresholdMilli) >= 0

\* two positive similarities compared: -1, 0 or 1
SimCmp(s, t) == CmpFrac(s.dot * s.dot, s.densq, t.dot * t.dot, t.densq)

\* the largest m in lo..hi with m/(2*RoundScale) <= |similarity|
RECURSIVE HalfSteps(_, _, _)
HalfSteps(sim, lo, hi) ==
  IF lo = hi THEN lo
  ELSE LET mid == (lo + hi + 1) \div 2
       IN  IF CmpFrac(mid * mid, 4 * RoundScale * RoundScale,
                      sim.dot * sim.dot, sim.densq) <= 0
           THEN HalfSteps(sim, mid, hi)
           ELSE HalfSteps(sim, lo, mid - 1)

\* round(similarity, 3), in thousandths: to the nearest, a tie to the even
\* neighbour (the ties of the model are dyadic, exact as floats).
round3(sim) ==
  LET m == HalfSteps(sim, 0, 2 * RoundScale)
      tie == CmpFrac(m * m, 4 * RoundScale * RoundScale,
                     sim.dot * sim.dot, sim.densq) = 0
      k == m \div 2
      mag == IF m % 2 = 0 THEN k
             ELSE IF tie THEN (IF k % 2 = 0 THEN k ELSE k + 1)
             ELSE k + 1
  IN  IF sim.dot < 0 THEN -mag ELSE mag

\* ---------------------------------------------------- generate_mock_embedding
\* hashlib.md5(text.encode()).hexdigest(), as the sequence of its hex digits.
\* The library digest is modelled by a fixed table, two bytes wide, whose
\* bytes lie near 0x80 so that every norm stays a small integer.
Md5Hex(text) ==
  CASE text = "red sunset"          -> <<8, 0, 7, 15>>
    [] text = "cat"                 -> <<8, 1, 8, 0>>
    [] text = "Pets. cat"           -> <<7, 15, 8, 1>>
    [] text = "Pets"                -> <<8, 0, 8, 0>>
    [] text = "Untitled photo"      -> <<7, 14, 8, 0>>
    [] text = "cat [IMAGE_CONTENT]" -> <<8, 0, 8, 2>>
    [] text = "[IMAGE_CONTENT]"     -> <<8, 2, 7, 15>>
    [] text = "data:image/jpeg;base64,A" -> <<7, 14, 7, 15>>
    [] text = "data:image/jpeg;base64,B" -> <<8, 1, 8, 2>>
    [] OTHER                        -> <<7, 15, 7, 14>>

\* int(hash_hex[i:i+2], 16) / 255.0 - 0.5, in units of 1/510
HexPairValue(hash_hex, i) ==
  LET byte == IF i + 1 <= Len(hash_hex) THEN 16 * hash_hex[i] + hash_hex[i + 1]
              ELSE hash_hex[i]
  IN  2 * byte - 255

\* while len(embedding) < dimension: embedding.extend(embedding[:min(...)])
RECURSIVE PadLoop(_, _)
PadLoop(embedding, dimension) ==
  IF Len(embedding) < dimension
  THEN PadLoop(embedding \o
               SubSeq(embedding, 1, Min2(Len(embedding), dimension - Len(embedding))),
               dimension)
  ELSE embedding

generate_mock_embedding(text, dimension) ==
  LET hash_hex == Md5Hex(text)
      embedding == [k \in 1..((Len(hash_hex) + 1) \div 2) |->
                      HexPairValue(hash_hex, 2 * k - 1)]
  IN  Slice(PadLoop(embedding, dimension), dimension)

\* ------------------------------------------------------------ the universe
\* Embeddings a stored photo or a reply of the remote endpoint may carry.
E1 == Pad(<<1>>)
\* cosine with E1, and with the fallback embedding of "red sunset", is
\* exactly 0.1
Tenth == Pad(<<1, 7, 7, -1>>)
\* cosines with E1 are 0.33333 and 0.33260: different, both shown as 0.333
TieA == Pad(<<5, 14, 2, 0>>)
TieB == Pad(<<5, 14, 2, 1>>)
ZeroVec == Pad(<<>>)
\* wrong dimension: one component short
ShortE1 == SubSeq(E1, 1, Dim - 1)
ShortZero == SubSeq(ZeroVec, 1, Dim - 1)

\* Photo documents found in the collection before the first request.  A
\* document is the record of its embedding fields; a field may be missing.
StoredPhotos ==
  { [textEmbedding |-> E1, imageEmbedding |-> E1],
    [textEmbedding |-> Tenth, imageEmbedding |-> Tenth],
    [textEmbedding |-> TieA, imageEmbedding |-> ZeroVec],
    [textEmbedding |-> TieB],
    [imageEmbedding |-> E1],
    [textEmbedding |-> ShortE1, imageEmbedding |-> ShortZero] }

RECURSIVE SeqsUpTo(_, _)
SeqsUpTo(S, n) ==
  IF n = 0 THEN {<<>>}
  ELSE LET shorter == SeqsUpTo(S, n - 1)
       IN  shorter \cup {Append(q, x) : q \in shorter, x \in S}

\* Request inputs.
Queries == {"  ", "red sunset"}
Descriptions == {"", "cat"}
\* the title and the description sent with an upload
Titles == {"", "Pets"}
UploadDescriptions == {"cat"}
Limits == {0, 1, DefaultLimit}
\* An uploaded file: its name split at the dots, whether PIL can read it,
\* and its pixels.
Files ==
  { [name |-> <<"a", "jpg">>, readable |-> TRUE, pixels |-> "A"],
    [name |-> <<"b", "PNG">>, readable |-> TRUE, pixels |-> "B"],
    [name |-> <<"c", "jpg">>, readable |-> FALSE, pixels |-> "C"],
    [name |-> <<"notes", "txt">>, readable |-> TRUE, pixels |-> "A"],
    [name |-> <<>>, readable |-> TRUE, pixels |-> "A"] }

\* request.files of an image search: no 'image' part, or a file
NoUpload == [name |-> <<"-">>, readable |-> FALSE, pixels |-> ""]
ImageUploads == {NoUpload} \cup Files

\* What the remote endpoint can do with a request it answers: a well-formed
\* body carrying an embedding, or one of the failures.
Replies ==
  { [kind |-> "ok", embedding |-> E1],
    [kind |-> "ok", embedding |-> ShortE1],
    [kind |-> "network_error", embedding |-> <<>>],
    [kind |-> "http_error", embedding |-> <<>>],
    [kind |-> "malformed_body", embedding |-> <<>>] }

\* ------------------------------------------------------------ string helpers
\* str.strip() on the query strings of the model
Strip(s) == IF s = "  " THEN "" ELSE s
\* str.lower() on the extensions of the model
Lower(s) == IF s = "PNG" THEN "png" ELSE s

\* allowed_file(filename): '.' in filename and the text after the last dot,
\* lowered, is an allowed extension
allowed_file(name) ==
  Len(name) >= 2 /\ Lower(Last(name)) \in ALLOWED_EXTENSIONS

\* process_image(image_file): the data URI of the re-encoded pixels
process_image(file) == "data:image/jpeg;base64," \o file.pixels

\* f"{description} [IMAGE_CONTENT]" if description else "[IMAGE_CONTENT]"
combined_text(description) ==
  IF description # "" THEN description \o " [IMAGE_CONTENT]" ELSE "[IMAGE_CONTENT]"

\* f"{title}. {description}" if title and description
\*   else title or description or "Untitled photo"
text_content(title, description) ==
  IF title # "" /\ description # "" THEN title \o ". " \o description
  ELSE IF title # "" THEN title
  ELSE IF description # "" THEN description
  ELSE "Untitled photo"

\* -------------------------------------------------------------------- state
VARIABLES
  voyage_api_key,     \* whether VOYAGE_API_KEY is set to a non-empty value
  photos_collection,  \* the documents of db.photos, in find({}) order
  pc,                 \* where the request being served stands
  req,                \* the request being served (or the last one served)
  endpoint,           \* the remote embedding endpoint, as seen by the request
  response,           \* the response of the last request served
  calls,              \* the embedding calls the request has completed so far
  posts,              \* requests.post calls issued by the request so far
  other               \* a search served meanwhile by a second worker thread

vars == <<voyage_api_key, photos_collection, pc, req, endpoint, response,
          calls, posts, other>>

NoCall == [fn |-> "none", text |-> "", image_data |-> "", description |-> "",
           mode |-> "none", result |-> <<>>]
NoResponse == [status |-> 0, results |-> <<>>, prelimit |-> <<>>,
               added |-> <<>>, errors |-> <<>>]
NoRequest == [kind |-> "none", text |-> "", title |-> "", description |-> "",
              image_data |-> "", limit |-> 0, files |-> <<>>, i |-> 0,
              query_embedding |-> <<>>, text_embedding |-> <<>>,
              added |-> <<>>, errors |-> <<>>]
\* the second worker before it has served anything: the locals of its
\* handler (query, description, image_data, limit, query_embedding) and its
\* answer
NoOther == [pc |-> "idle", kind |-> "none", text |-> "", description |-> "",
            image_data |-> "", limit |-> 0, query_embedding |-> <<>>,
            response |-> NoResponse]

\* ------------------------------------------------------- embedding providers
\* `if not voyage_api_key:` of both generate_*_embedding functions
\* (the variant that always takes the live path)
demo_mode_never == FALSE
demo_mode == ~voyage_api_key

\* generate_text_embedding without a key
text_embedding_demo(text) == generate_mock_embedding(text, Dim)

\* generate_text_embedding with a key, once requests.post has returned or
\* raised: raise_for_status, response.json() and result["data"][0]
\* ["embedding"] raise on the failures, and `except Exception` takes over
\* (the variant whose except branch returns an empty vector)
text_embedding_reply_empty(text, reply) ==
  IF reply.kind = "ok" THEN reply.embedding ELSE <<>>
text_embedding_reply(text, reply) ==
  IF reply.kind = "ok" THEN reply.embedding
  ELSE generate_mock_embedding(text, Dim)

\* generate_image_embedding without a key
\* (the variant that hashes the image payload instead of the sentinel)
image_embedding_demo_pixels(image_data, description) ==
  generate_mock_embedding(image_data, Dim)
image_embedding_demo(image_data, description) ==
  generate_mock_embedding(combined_text(description), Dim)

\* generate_image_embedding with a key, once requests.post has returned or
\* raised
image_embedding_reply(image_data, description, reply) ==
  IF reply.kind = "ok" THEN reply.embedding
  ELSE generate_mock_embedding(combined_text(description), Dim)

TextCall(text, mode, result) ==
  [fn |-> "text", text |-> text, image_data |-> "", description |-> "",
   mode |-> mode, result |-> result]
ImageCall(image_data, description, mode, result) ==
  [fn |-> "image", text |-> "", image_data |-> image_data,
   description |-> description, mode |-> mode, result |-> result]
ReplyMode(reply) == IF reply.kind = "ok" THEN "live" ELSE "fallback"

\* ------------------------------------------------------------- ranked search
OtherField(field) ==
  IF field = "textEmbedding" THEN "imageEmbedding" ELSE "textEmbedding"

\* `if 'textEmbedding' in photo:` and the photo[...] read under it
\* (the variant that scores the other embedding when the field is missing)
candidate_or_other(photo, field) ==
  [scored |-> TRUE,
   embedding |-> IF field \in DOMAIN photo THEN photo[field]
                 ELSE photo[OtherField(field)]]
candidate(photo, field) ==
  IF field \in DOMAIN photo
  THEN [scored |-> TRUE, embedding |-> photo[field]]
  ELSE [scored |-> FALSE, embedding |-> <<>>]

\* `if similarity > 0.1:`
passes_threshold(similarity) == AboveThreshold(similarity)

\* the `for photo in photos:` loop from document i on; a ValueError leaves
\* the loop for the handler's `except Exception`
RECURSIVE scan_photos(_, _, _, _, _)
scan_photos(photos, field, query_embedding, i, results) ==
  IF i > Len(photos) THEN [raised |-> FALSE, results |-> results]
  ELSE LET c == candidate(photos[i], field)
           similarity == calculate_similarity(query_embedding, c.embedding)
       IN  IF ~c.scored
           THEN scan_photos(photos, field, query_embedding, i + 1, results)
           ELSE IF similarity.raised
           THEN [raised |-> TRUE, results |-> <<>>]
           ELSE IF passes_threshold(similarity)
           THEN scan_photos(photos, field, query_embedding, i + 1,
                            Append(results,
                                   [id |-> i, similarity |-> round3(similarity)]))
           ELSE scan_photos(photos, field, query_embedding, i + 1, results)

\* x put into a list sorted by similarity descending, behind its equals
RECURSIVE InsertDesc(_, _)
InsertDesc(sorted, x) ==
  IF sorted = <<>> THEN <<x>>
  ELSE IF Head(sorted).similarity >= x.similarity
  THEN <<Head(sorted)>> \o InsertDesc(Tail(sorted), x)
  ELSE <<x>> \o sorted

RECURSIVE SortFrom(_, _, _)
SortFrom(results, i, sorted) ==
  IF i > Len(results) THEN sorted
  ELSE SortFrom(results, i + 1, InsertDesc(sorted, results[i]))

\* results.sort(key=lambda x: x['similarity'], reverse=True): a stable sort,
\* then results = results[:limit]
sort_and_limit(results, limit) ==
  Slice(SortFrom(results, 1, <<>>), limit)

\* the scan, sort, limit and jsonify of both search handlers
search_response(photos, field, query_embedding, limit) ==
  LET scan == scan_photos(photos, field, query_embedding, 1, <<>>)
  IN  IF scan.raised
      THEN [NoResponse EXCEPT !.status = 500]
      ELSE [NoResponse EXCEPT !.status = 200,
                              !.results = sort_and_limit(scan.results, limit),
                              !.prelimit = scan.results]

\* ------------------------------------------------------------ upload loop
\* The `for i, file in enumerate(files):` loop of add_photo from file m.i
\* on, run until it has to wait for the remote endpoint (stage
\* "await_text") or has gone through every file (stage "done").
RECURSIVE add_run(_)
\* (the variant whose `try` encloses the loop: the first file that
\* process_image rejects ends the upload)
add_run_stops(m) ==
  IF m.i > Len(m.files) THEN [m EXCEPT !.stage = "done"]
  ELSE LET file == m.files[m.i]
       IN  IF file.name = <<>> \/ ~allowed_file(file.name)
           THEN \* errors.append("File i: Invalid file type"); continue
                add_run([m EXCEPT !.errors = Append(@, m.i), !.i = @ + 1])
           ELSE IF ~file.readable
           THEN [m EXCEPT !.errors = Append(@, m.i), !.i = @ + 1,
                          !.stage = "done"]
           ELSE IF ~demo_mode
           THEN [m EXCEPT !.stage = "await_text"]
           ELSE LET text == text_content(m.title, m.description)
                    image_data == process_image(file)
                    te == text_embedding_demo(text)
                    ie == image_embedding_demo(image_data, m.description)
                IN  add_run([m EXCEPT
                      !.photos = Append(@, [textEmbedding |-> te,
                                            imageEmbedding |-> ie]),
                      !.added = Append(@, m.i),
                      !.calls = @ \o <<TextCall(text, "demo", te),
                                       ImageCall(image_data, m.description,
                                                 "demo", ie)>>,
                      !.i = @ + 1])

add_run(m) ==
  IF m.i > Len(m.files) THEN [m EXCEPT !.stage = "done"]
  ELSE LET file == m.files[m.i]
       IN  IF file.name = <<>> \/ ~allowed_file(file.name)
           THEN \* errors.append("File i: Invalid file type"); continue
                add_run([m EXCEPT !.errors = Append(@, m.i), !.i = @ + 1])
           ELSE IF ~file.readable
           THEN \* process_image raises; except: errors.append(...)
                add_run([m EXCEPT !.errors = Append(@, m.i), !.i = @ + 1])
           ELSE IF ~demo_mode
           THEN [m EXCEPT !.stage = "await_text"]
           ELSE LET text == text_content(m.title, m.description)
                    image_data == process_image(file)
                    te == text_embedding_demo(text)
                    ie == image_embedding_demo(image_data, m.description)
                IN  add_run([m EXCEPT
                      !.photos = Append(@, [textEmbedding |-> te,
                                            imageEmbedding |-> ie]),
                      !.added = Append(@, m.i),
                      !.calls = @ \o <<TextCall(text, "demo", te),
                                       ImageCall(image_data, m.description,
                                                 "demo", ie)>>,
                      !.i = @ + 1])

\* ------------------------------------------------------------------ actions
Init ==
  /\ voyage_api_key \in BOOLEAN
  /\ photos_collection \in SeqsUpTo(StoredPhotos, MaxInitCorpus)
  /\ pc = "idle"
  /\ req = NoRequest
  /\ endpoint = "idle"
  /\ response = NoResponse
  /\ calls = <<>>
  /\ posts = 0
  /\ other = NoOther

Settle(r, resp, cs, np, newpc) ==
  /\ req' = r
  /\ response' = resp
  /\ calls' = cs
  /\ posts' = np
  /\ pc' = newpc
  /\ endpoint' = IF newpc = "idle" THEN "idle" ELSE "pending"
  /\ UNCHANGED <<voyage_api_key, other>>

\* POST /api/search/text
SearchByText(query, limit) ==
  /\ pc = "idle"
  /\ UNCHANGED photos_collection
  /\ LET q == Strip(query)
         r == [NoRequest EXCEPT !.kind = "search_text", !.text = q, !.limit = limit]
     IN  IF q = ""
         THEN Settle(r, [NoResponse EXCEPT !.status = 400], <<>>, 0, "idle")
         ELSE IF demo_mode
         THEN LET e == text_embedding_demo(q)
                  c == TextCall(q, "demo", e)
              IN  Settle([r EXCEPT !.query_embedding = e],
                         search_response(photos_collection, "textEmbedding", e, limit),
                         <<c>>, 0, "idle")
         ELSE Settle(r, NoResponse, <<>>, 1, "await_text")

\* POST /api/search/image
SearchByImage(file, description, limit) ==
  /\ pc = "idle"
  /\ UNCHANGED photos_collection
  /\ LET r == [NoRequest EXCEPT !.kind = "search_image",
                                !.description = description, !.limit = limit]
     IN  IF file = NoUpload \/ file.name = <<>> \/ ~allowed_file(file.name)
         THEN Settle(r, [NoResponse EXCEPT !.status = 400], <<>>, 0, "idle")
         ELSE IF ~file.readable
         THEN \* process_image raises, the handler's except answers 500
              Settle(r, [NoResponse EXCEPT !.status = 500], <<>>, 0, "idle")
         ELSE LET image_data == process_image(file)
                  ri == [r EXCEPT !.image_data = image_data]
              IN  IF demo_mode
                  THEN LET e == image_embedding_demo(image_data, description)
                           c == ImageCall(image_data, description, "demo", e)
                       IN  Settle([ri EXCEPT !.query_embedding = e],
                                  search_response(photos_collection,
                                                  "imageEmbedding", e, limit),
                                  <<c>>, 0, "idle")
                  ELSE Settle(ri, NoResponse, <<>>, 1, "await_image")

\* The upload loop has run to m: store what it inserted, and either answer
\* or post the text embedding request of file m.i.
AddSettle(m, np) ==
  /\ photos_collection' = m.photos
  /\ LET r == [req EXCEPT !.kind = "add_photo", !.title = m.title,
                          !.description = m.description, !.files = m.files,
                          !.i = m.i, !.added = m.added, !.errors = m.errors,
                          !.text = "", !.image_data = "", !.limit = 0,
                          !.query_embedding = <<>>, !.text_embedding = <<>>]
     IN  IF m.stage = "done"
         THEN Settle(r, [NoResponse EXCEPT
                           !.status = IF m.added # <<>> THEN 201 ELSE 400,
                           !.added = m.added, !.errors = m.errors],
                     m.calls, np, "idle")
         ELSE Settle(r, NoResponse, m.calls, np + 1, "await_text")

\* POST /api/photos
AddPhoto(files, title, description) ==
  /\ pc = "idle"
  /\ Len(photos_collection) + Len(files) <= MaxPhotos
  /\ IF files = <<>> \/ \A k \in DOMAIN files : files[k].name = <<>>
     THEN /\ UNCHANGED photos_collection
          /\ Settle([NoRequest EXCEPT !.kind = "add_photo", !.title = title,
                                      !.description = description, !.files = files],
                    [NoResponse EXCEPT !.status = 400], <<>>, 0, "idle")
     ELSE LET m == add_run([files |-> files, title |-> title,
                            description |-> description, i |-> 1,
                            added |-> <<>>, errors |-> <<>>,
                            photos |-> photos_collection, calls |-> <<>>,
                            stage |-> "run"])
          IN  AddSettle(m, 0)

\* requests.post of generate_text_embedding returns or raises, within
\* search_by_text
ReplyToTextSearch(reply) ==
  /\ pc = "await_text" /\ endpoint = "pending" /\ req.kind = "search_text"
  /\ UNCHANGED photos_collection
  /\ LET e == text_embedding_reply(req.text, reply)
         c == TextCall(req.text, ReplyMode(reply), e)
     IN  Settle([req EXCEPT !.query_embedding = e],
                search_response(photos_collection, "textEmbedding", e, req.limit),
                Append(calls, c), posts, "idle")

\* requests.post of generate_image_embedding returns or raises, within
\* search_by_image
ReplyToImageSearch(reply) ==
  /\ pc = "await_image" /\ endpoint = "pending" /\ req.kind = "search_image"
  /\ UNCHANGED photos_collection
  /\ LET e == image_embedding_reply(req.image_data, req.description, reply)
         c == ImageCall(req.image_data, req.description, ReplyMode(reply), e)
     IN  Settle([req EXCEPT !.query_embedding = e],
                search_response(photos_collection, "imageEmbedding", e, req.limit),
                Append(calls, c), posts, "idle")

\* requests.post of generate_text_embedding returns or raises, within
\* add_photo: the handler goes on to generate_image_embedding
ReplyToUploadText(reply) ==
  /\ pc = "await_text" /\ endpoint = "pending" /\ req.kind = "add_photo"
  /\ UNCHANGED photos_collection
  /\ LET text == text_content(req.title, req.description)
         e == text_embedding_reply(text, reply)
         c == TextCall(text, ReplyMode(reply), e)
     IN  Settle([req EXCEPT !.text_embedding = e], NoResponse,
                Append(calls, c), posts + 1, "await_image")

\* requests.post of generate_image_embedding returns or raises, within
\* add_photo: the document is inserted and the loop goes on
ReplyToUploadImage(reply) ==
  /\ pc = "await_image" /\ endpoint = "pending" /\ req.kind = "add_photo"
  /\ LET image_data == process_image(req.files[req.i])
         e == image_embedding_reply(image_data, req.description, reply)
         c == ImageCall(image_data, req.description, ReplyMode(reply), e)
         m == add_run([files |-> req.files, title |-> req.title,
                       description |-> req.description, i |-> req.i + 1,
                       added |-> Append(req.added, req.i), errors |-> req.errors,
                       photos |-> Append(photos_collection,
                                         [textEmbedding |-> req.text_embedding,
                                          imageEmbedding |-> e]),
                       calls |-> Append(calls, c), stage |-> "run"])
     IN  AddSettle(m, posts)

\* The remote endpoint accepts the connection and never answers.
EndpointStalls ==
  /\ endpoint = "pending"
  /\ endpoint' = "stalled"
  /\ UNCHANGED <<voyage_api_key, photos_collection, pc, req, response, calls,
                 posts, other>>

Next ==
  \/ \E query \in Queries, limit \in Limits : SearchByText(query, limit)
  \/ \E file \in ImageUploads, description \in Descriptions, limit \in Limits :
       SearchByImage(file, description, limit)
  \/ \E files \in SeqsUpTo(Files, MaxFiles), title \in Titles,
        description \in UploadDescriptions : AddPhoto(files, title, description)
  \/ \E reply \in Replies : ReplyToTextSearch(reply)
  \/ \E reply \in Replies : ReplyToImageSearch(reply)
  \/ \E reply \in Replies : ReplyToUploadText(reply)
  \/ \E reply \in Replies : ReplyToUploadImage(reply)
  \/ EndpointStalls

Spec == Init /\ [][Next]_vars

\* A reply the endpoint is ready to give is eventually delivered, and the
\* handler then runs on.  Nothing in the code bounds the wait for a reply
\* (requests.post is called without a timeout), so no step is ever taken
\* for an endpoint that has stalled.
EndpointReplies ==
  \E reply \in Replies :
    \/ ReplyToTextSearch(reply)
    \/ ReplyToImageSearch(reply)
    \/ ReplyToUploadText(reply)
    \/ ReplyToUploadImage(reply)

\* The fair behaviours of a server started with a credential on an empty
\* collection.
FairInit == Init /\ voyage_api_key /\ photos_collection = <<>>
FairSpec == FairInit /\ [][Next]_vars /\ WF_vars(EndpointReplies)

\* ------------------------------------------------ two searches at a time
\* The server answers each request on a thread of its own, so a second
\* search can run between any two steps of the first.  The second worker
\* runs the same handlers; its locals are the fields of `other`.
OtherQueries == {"red sunset"}
OtherDescriptions == {"cat"}
OtherLimits == {1, DefaultLimit}
\* the uploads of the two workers' image searches: a readable JPEG
ReadableUploads == {f \in Files : f.readable /\ f.name = <<"a", "jpg">>}

\* The second worker's handler leaves off at newpc with locals o and answer
\* resp: everything it wrote is local to it.
\* (the variant whose handler builds its answer in a module-level variable,
\* the one the first worker returns its own answer from)
OtherSettle_shared(o, resp, newpc) ==
  /\ other' = [o EXCEPT !.pc = newpc, !.response = resp]
  /\ response' = IF newpc = "idle" THEN resp ELSE response
  /\ UNCHANGED <<voyage_api_key, photos_collection, pc, req, endpoint,
                 calls, posts>>
OtherSettle(o, resp, newpc) ==
  /\ other' = [o EXCEPT !.pc = newpc, !.response = resp]
  /\ UNCHANGED <<voyage_api_key, photos_collection, pc, req, endpoint,
                 response, calls, posts>>

\* POST /api/search/text, on the second worker
OtherSearchByText(query, limit) ==
  /\ other.pc = "idle"
  /\ LET q == Strip(query)
         o == [NoOther EXCEPT !.kind = "search_text", !.text = q,
                              !.limit = limit]
     IN  IF q = ""
         THEN OtherSettle(o, [NoResponse EXCEPT !.status = 400], "idle")
         ELSE IF demo_mode
         THEN LET e == text_embedding_demo(q)
              IN  OtherSettle([o EXCEPT !.query_embedding = e],
                              search_response(photos_collection,
                                              "textEmbedding", e, limit),
                              "idle")
         ELSE OtherSettle(o, NoResponse, "await_text")

\* POST /api/search/image, on the second worker
OtherSearchByImage(file, description, limit) ==
  /\ other.pc = "idle"
  /\ LET o == [NoOther EXCEPT !.kind = "search_image",
                              !.description = description, !.limit = limit]
     IN  IF file = NoUpload \/ file.name = <<>> \/ ~allowed_file(file.name)
         THEN OtherSettle(o, [NoResponse EXCEPT !.status = 400], "idle")
         ELSE IF ~file.readable
         THEN OtherSettle(o, [NoResponse EXCEPT !.status = 500], "idle")
         ELSE LET image_data == process_image(file)
                  oi == [o EXCEPT !.image_data = image_data]
              IN  IF demo_mode
                  THEN LET e == image_embedding_demo(image_data, description)
                       IN  OtherSettle([oi EXCEPT !.query_embedding = e],
                                       search_response(photos_collection,
                                                       "imageEmbedding", e,
                                                       limit),
                                       "idle")
                  ELSE OtherSettle(oi, NoResponse, "await_image")

\* requests.post of generate_text_embedding returns or raises, on the
\* second worker
OtherReplyToTextSearch(reply) ==
  /\ other.pc = "await_text"
  /\ LET e == text_embedding_reply(other.text, reply)
     IN  OtherSettle([other EXCEPT !.query_embedding = e],
                     search_response(photos_collection, "textEmbedding", e,
                                     other.limit),
                     "idle")

\* requests.post of generate_image_embedding returns or raises, on the
\* second worker
OtherReplyToImageSearch(reply) ==
  /\ other.pc = "await_image"
  /\ LET e == image_embedding_reply(other.image_data, other.description, reply)
     IN  OtherSettle([other EXCEPT !.query_embedding = e],
                     search_response(photos_collection, "imageEmbedding", e,
                                     other.limit),
                     "idle")

\* Text and image searches served by two workers, their steps interleaved
\* in every order.
SearchNext ==
  \/ \E query \in Queries, limit \in Limits : SearchByText(query, limit)
  \/ \E file \in ReadableUploads, description \in Descriptions,
        limit \in Limits : SearchByImage(file, description, limit)
  \/ \E reply \in Replies : ReplyToTextSearch(reply)
  \/ \E reply \in Replies : ReplyToImageSearch(reply)
  \/ \E query \in OtherQueries, limit \in OtherLimits :
       OtherSearchByText(query, limit)
  \/ \E file \in ReadableUploads, description \in OtherDescriptions,
        limit \in OtherLimits : OtherSearchByImage(file, description, limit)
  \/ \E reply \in Replies : OtherReplyToTextSearch(reply)
  \/ \E reply \in Replies : OtherReplyToImageSearch(reply)

SearchSpec == Init /\ [][SearchNext]_vars

\* ============================================================== properties
\* the fixed marker the fallback hashes in place of the image
ImageSentinel == "[IMAGE_CONTENT]"

\* the string the deterministic fallback is to hash for a completed call
FallbackInput(c) ==
  IF c.fn = "text" THEN c.text
  ELSE IF c.description # "" THEN c.description \o " " \o ImageSentinel
  ELSE ImageSentinel

\* the embedding calls the request has started: the completed ones and the
\* one waiting for the endpoint
CallsStarted == Len(calls) + (IF pc = "idle" THEN 0 ELSE 1)

\* C1: with a credential configured, an embedding call whose live request
\* failed (network error, non-success status, malformed body) has returned
\* to its caller exactly the fallback vector of the same input, and every
\* embedding call has issued one live request, never a second.
C1_FailedLiveCallFallsBack ==
  voyage_api_key =>
    /\ posts = CallsStarted
    /\ \A k \in DOMAIN calls :
         calls[k].mode = "fallback" =>
           calls[k].result = generate_mock_embedding(FallbackInput(calls[k]), Dim)

\* a failed live text call and a failed live image call, both completed
C1_Witness ==
  /\ voyage_api_key
  /\ pc = "idle"
  /\ \E j, k \in DOMAIN calls :
       /\ calls[j].fn = "text" /\ calls[j].mode = "fallback"
       /\ calls[k].fn = "image" /\ calls[k].mode = "fallback"
       /\ calls[k].description # ""

\* C2: without a credential no request ever posts to the embedding
\* endpoint or waits for it, and every embedding comes from the fallback.
C2_NoKeyNoNetwork ==
  ~voyage_api_key =>
    /\ posts = 0
    /\ pc = "idle"
    /\ endpoint = "idle"
    /\ \A k \in DOMAIN calls : calls[k].mode = "demo"

\* without a credential: an upload that stored a photo, whose embeddings a
\* later state still holds
C2_Witness ==
  /\ ~voyage_api_key
  /\ req.kind = "add_photo"
  /\ response.status = 201
  /\ Len(calls) >= 2

\* C3: every request that has started an embedding call is eventually
\* answered: the call returns, with the fallback vector when the endpoint
\* never replies.
C3_EveryCallReturns == (pc # "idle") ~> (pc = "idle")

\* ------------------------------------------------- a search that has scanned
\* The last request was a search that obtained its query embedding and went
\* through the collection; a search changes no document, so the collection
\* is still the one it scanned.
SearchDone ==
  /\ pc = "idle"
  /\ req.kind \in {"search_text", "search_image"}
  /\ calls # <<>>

SearchField ==
  IF req.kind = "search_text" THEN "textEmbedding" ELSE "imageEmbedding"

HasField(i) == SearchField \in DOMAIN photos_collection[i]
\* the exact similarity of document i, which has the field
Score(i) ==
  calculate_similarity(req.query_embedding, photos_collection[i][SearchField])

ResultIds(results) == {results[k].id : k \in DOMAIN results}

\* C4: a document that has the requested embedding is in the result set
\* before limiting exactly when its similarity is at least 0.1.
C4_IncludedIffAtLeastThreshold ==
  (SearchDone /\ response.status = 200) =>
    \A i \in DOMAIN photos_collection :
      HasField(i) =>
        (i \in ResultIds(response.prelimit) <=> AtLeastThreshold(Score(i)))

\* a document whose embedding has neither the query's length nor length 0
Malformed(i) ==
  /\ HasField(i)
  /\ Len(photos_collection[i][SearchField]) \notin {0, Dim}

\* C5: a search with a query of the right dimension over a collection that
\* holds a document of the wrong dimension answers 200 with results drawn
\* from the well-formed documents only.
C5_MalformedRecordSkipped ==
  (/\ SearchDone
   /\ Len(req.query_embedding) = Dim
   /\ \E i \in DOMAIN photos_collection : Malformed(i)) =>
    /\ response.status = 200
    /\ \A i \in ResultIds(response.results) : ~Malformed(i)

\* document i ranks before document j: the higher similarity first, equal
\* similarities in the order of the collection
RanksBefore(i, j) ==
  \/ SimCmp(Score(i), Score(j)) = 1
  \/ SimCmp(Score(i), Score(j)) = 0 /\ i < j

\* C6: a search with limit >= 0 answers without error, and its result is
\* the first `limit` of the included documents in ranking order: no more
\* than `limit` entries, each entry ranking before the next, and every
\* included document left out ranking behind every entry.
C6_RankedAndLimited ==
  (SearchDone /\ req.limit >= 0) =>
    /\ response.status = 200
    /\ Len(response.results) = Min2(req.limit, Len(response.prelimit))
    /\ ResultIds(response.results) \subseteq ResultIds(response.prelimit)
    /\ \A k \in 1..(Len(response.results) - 1) :
         RanksBefore(response.results[k].id, response.results[k + 1].id)
    /\ \A i \in ResultIds(response.prelimit) \ ResultIds(response.results) :
         \A j \in ResultIds(response.results) : RanksBefore(j, i)

\* C7: a document without the requested embedding field is in no result,
\* limited or not, and a search fails only over a document that has the
\* field.
C7_MissingFieldExcluded ==
  SearchDone =>
    /\ \A i \in ResultIds(response.results) \cup ResultIds(response.prelimit) :
         HasField(i)
    /\ response.status \in {200, 500}
    /\ response.status = 500 =>
         \E i \in DOMAIN photos_collection : HasField(i) /\ Score(i).raised

\* a search answered 200 over a collection holding a document without the
\* field, beside one that is in the results
C7_Witness ==
  /\ SearchDone
  /\ response.status = 200
  /\ response.results # <<>>
  /\ \E i \in DOMAIN photos_collection :
       /\ ~HasField(i)
       /\ OtherField(SearchField) \in DOMAIN photos_collection[i]

\* C8: every vector an embedding call has returned, live or fallback, has
\* exactly D components.
C8_EveryEmbeddingHasDim ==
  \A k \in DOMAIN calls : Len(calls[k].result) = Dim

\* C9: for the query of a search and every stored embedding it is scored
\* against, calculate_similarity is 0.0, without raising, when either is
\* empty or has norm zero; such a document is in no result.
C9_DegenerateScoresZero ==
  SearchDone =>
    \A i \in DOMAIN photos_collection :
      LET e == IF HasField(i) THEN photos_collection[i][SearchField] ELSE <<>>
          q == req.query_embedding
      IN  (HasField(i) /\ (Len(e) = 0 \/ Len(q) = 0
                           \/ NormSq(e) = 0 \/ NormSq(q) = 0)) =>
            /\ Score(i) = ZeroSim
            /\ i \notin ResultIds(response.prelimit)

IsFallback(c) == c.mode \in {"demo", "fallback"}

\* C10: among the calls of a request, two fallback text embeddings of the
\* same string are identical, and two fallback image embeddings with the
\* same description are identical whatever the two images.
C10_FallbackDeterministic ==
  \A j, k \in DOMAIN calls :
    (/\ IsFallback(calls[j]) /\ IsFallback(calls[k])
     /\ calls[j].fn = calls[k].fn
     /\ calls[j].text = calls[k].text
     /\ calls[j].description = calls[k].description) =>
      calls[j].result = calls[k].result

\* an upload without a credential of two different images under one
\* description: two text calls on the same string made before and after the
\* first insert, two image calls on different pixels
C10_Witness ==
  /\ ~voyage_api_key
  /\ \E j, k \in DOMAIN calls :
       /\ calls[j].fn = "image" /\ calls[k].fn = "image"
       /\ calls[j].image_data # calls[k].image_data
       /\ calls[j].description = calls[k].description
  /\ \E j, k \in DOMAIN calls :
       j # k /\ calls[j].fn = "text" /\ calls[k].fn = "text"

\* ------------------------------------------------ searches side by side
\* the second worker has answered a search that went through the collection
OtherDone ==
  /\ other.pc = "idle"
  /\ other.kind \in {"search_text", "search_image"}
  /\ other.response.status \in {200, 500}

OtherSearchField ==
  IF other.kind = "search_text" THEN "textEmbedding" ELSE "imageEmbedding"

\* what a search of that field, query embedding and limit answers when it
\* runs alone over the collection
AnswerAlone(field, query_embedding, limit) ==
  search_response(photos_collection, field, query_embedding, limit)

SearchAnswersIndependent ==
  /\ SearchDone =>
       /\ req.query_embedding = Last(calls).result
       /\ response = AnswerAlone(SearchField, req.query_embedding, req.limit)
  /\ OtherDone =>
       other.response = AnswerAlone(OtherSearchField, other.query_embedding,
                                    other.limit)
  /\ (/\ SearchDone /\ OtherDone
      /\ req.kind = other.kind
      /\ req.query_embedding = other.query_embedding
      /\ req.limit = other.limit) => response = other.response

\* C11: no step of a text or image search changes the photo collection, and
\* the answer of a finished search is the one the same search gives alone
\* over the collection, whatever steps of another search ran in between;
\* two searches with the same field, query embedding and limit answer alike.
C11_SearchesIndependent ==
  /\ [][photos_collection' = photos_collection]_vars
  /\ []SearchAnswersIndependent

\* the first worker's text search waits for the endpoint, and meanwhile the
\* second worker has run an image search from start to answer and found
\* documents
C11_Witness ==
  /\ pc = "await_text" /\ req.kind = "search_text"
  /\ OtherDone
  /\ other.kind = "search_image"
  /\ other.response.status = 200
  /\ other.response.results # <<>>

\* ------------------------------------------------------------- an upload
\* the request is an upload that named at least one file and so went into
\* the loop over its files
UploadLooped ==
  /\ req.kind = "add_photo"
  /\ \E k \in DOMAIN req.files : req.files[k].name # <<>>

\* the upload has been answered
UploadDone == UploadLooped /\ pc = "idle"

\* the document inserted for the k-th file the upload has added so far
InsertedDoc(k) ==
  photos_collection[Len(photos_collection) - Len(req.added) + k]

\* file i of the upload has an allowed name and an image that can be read
FileAccepted(i) ==
  /\ req.files[i].name # <<>>
  /\ allowed_file(req.files[i].name)
  /\ req.files[i].readable

SeqSet(q) == {q[k] : k \in DOMAIN q}

UploadAccounted ==
  /\ UploadLooped =>
       \A k \in DOMAIN req.added :
         LET doc == InsertedDoc(k)
             tc == calls[2 * k - 1]
             ic == calls[2 * k]
         IN  /\ DOMAIN doc = {"textEmbedding", "imageEmbedding"}
             /\ tc.fn = "text"
             /\ tc.text = text_content(req.title, req.description)
             /\ doc.textEmbedding = tc.result
             /\ ic.fn = "image"
             /\ ic.image_data = process_image(req.files[req.added[k]])
             /\ ic.description = req.description
             /\ doc.imageEmbedding = ic.result
  /\ UploadDone =>
       /\ response.added = req.added /\ response.errors = req.errors
       /\ SeqSet(req.added) \cup SeqSet(req.errors) = DOMAIN req.files
       /\ SeqSet(req.added) \cap SeqSet(req.errors) = {}
       /\ Len(req.added) + Len(req.errors) = Len(req.files)
       /\ \A i \in DOMAIN req.files : i \in SeqSet(req.added) <=> FileAccepted(i)
       /\ response.status = 201 <=> req.added # <<>>
       /\ response.status \in {201, 400}

\* a step that changes the collection is a step of an upload, and appends
\* one document for each file the step adds to the upload's added list
InsertsAreAdded ==
  photos_collection' # photos_collection =>
    /\ req'.kind = "add_photo"
    /\ Len(photos_collection') - Len(photos_collection)
         = Len(req'.added) - (IF pc = "idle" THEN 0 ELSE Len(req.added))
    /\ Slice(photos_collection', Len(photos_collection)) = photos_collection

\* C12: every document an upload inserts carries the textEmbedding returned
\* for the title/description composite and the imageEmbedding returned for
\* the processed image and the description; when an upload that named a
\* file is answered, each of its files is in exactly one of the added list
\* and the error list, a file is added exactly when it is accepted, whatever
\* happened to the files before it, and the status is 201 exactly when a
\* document was inserted, 400 otherwise.
C12_UploadAccounted ==
  /\ []UploadAccounted
  /\ [][InsertsAreAdded]_vars

\* an answered upload of two files with a credential: the first file cannot
\* be read and is in the error list, the second was inserted afterwards
C12_Witness ==
  /\ UploadDone
  /\ voyage_api_key
  /\ Len(req.files) = 2
  /\ ~req.files[1].readable
  /\ req.errors = <<1>>
  /\ req.added = <<2>>
  /\ response.status = 201

====
